---------------------------- MODULE Spec2Model ----------------------------
(***************************************************************************)
(* Fixed-window rate limiter (app/core/rate_limiter.py, class RateLimiter). *)
(*                                                                         *)
(* The limiter object holds rate, time_window, the customers dictionary    *)
(* customer_id -> (window_start, request_count), a defaultdict of          *)
(* per-customer locks and the lock that protects that defaultdict.         *)
(* Several threads call is_allowed concurrently; each thread's position in *)
(* is_allowed is pc[t], named after the source line it is about to run.    *)
(*                                                                         *)
(* Python values are records [kind, val].  Numbers are kept in units of    *)
(* 1/Scale so that fractional timestamps exist: the float 1.5 is           *)
(* [kind |-> "float", val |-> 3] with Scale = 2.                           *)
(***************************************************************************)
EXTENDS Integers, Sequences, FiniteSets, TLC

\* ---------------------------------------------------------------- bounds
NumThreads == 2          \* threads calling is_allowed concurrently
MaxCalls == 3            \* is_allowed calls started in one concurrent behaviour
MaxSeqCalls == 5         \* is_allowed calls started in one single-threaded behaviour
MaxArgCalls == 3         \* is_allowed calls started when any argument may be passed
MaxTime == 4             \* largest whole-second timestamp passed in
Scale == 2               \* timestamps are counted in units of 1/Scale second
MaxHttpCalls == 7        \* requests served in one behaviour of the HTTP layer
HttpRate == 5            \* RateLimiter(rate=5, ...) of the HTTP layer
HttpWindow == 60         \* RateLimiter(..., time_window=60) of the HTTP layer

Threads == 1..NumThreads
CustomerKeys == {"a", "b"}

\* ------------------------------------------------------- python values
PyInt(n) == [kind |-> "int", val |-> n * Scale, str |-> ""]
PyFloat(halves) == [kind |-> "float", val |-> halves, str |-> ""]
PyBool(b) == [kind |-> "bool", val |-> IF b THEN Scale ELSE 0, str |-> ""]
PyStr(s) == [kind |-> "str", val |-> 0, str |-> s]
PyNone == [kind |-> "none", val |-> 0, str |-> ""]
PyNaN == [kind |-> "nan", val |-> 0, str |-> ""]
PyInf == [kind |-> "inf", val |-> 0, str |-> ""]
NoValue == [kind |-> "unset", val |-> 0, str |-> ""]

\* isinstance(x, int): bool is a subclass of int
IsInstanceInt(x) == x.kind \in {"int", "bool"}
\* isinstance(x, (int, float)): nan and inf are floats
IsInstanceNumber(x) == x.kind \in {"int", "bool", "float", "nan", "inf"}
IsInstanceStr(x) == x.kind = "str"
\* truthiness of a value: None, "", 0, 0.0 and False are falsy
Truthy(x) ==
    CASE x.kind = "none" -> FALSE
      [] x.kind = "str" -> x.str /= ""
      [] x.kind \in {"int", "bool", "float"} -> x.val /= 0
      [] OTHER -> TRUE
\* x < 0 for a number; every comparison with nan is False, inf is positive
LessThanZero(x) == x.kind \in {"int", "bool", "float"} /\ x.val < 0
\* x <= 0 for an int
AtMostZero(x) == x.val <= 0

\* the arguments the callers pass: the documented ones ...
Rates == {PyInt(1), PyInt(2)}
Windows == {PyInt(2)}
Customers == {PyStr(k) : k \in CustomerKeys}
Times == {PyInt(n) : n \in 0..MaxTime} \cup {PyFloat(3)}
\* ... the timestamps concurrent callers use: two in window 0, one of them
\* fractional, and one two windows later ...
ConcurrentTimes == {PyInt(0), PyFloat(3), PyInt(4)}
\* ... and any others
RateInputs ==
    Rates \cup {PyInt(-1), PyInt(0), PyFloat(2 * Scale), PyStr("five"), PyNone,
                PyBool(TRUE), PyBool(FALSE)}
WindowInputs ==
    Windows \cup {PyInt(-1), PyInt(0), PyFloat(2 * Scale), PyStr("ten"), PyNone,
                  PyBool(TRUE), PyBool(FALSE)}
CustomerInputs == Customers \cup {PyStr(""), PyNone, PyInt(7)}
TimeInputs ==
    Times \cup {PyInt(-1), PyFloat(-1), PyStr("now"), PyNone, PyBool(TRUE), PyNaN, PyInf}

\* ---------------------------------------------------------------- state
\* --------------------------------------------------------- the HTTP layer
\* request.headers.get("X-Client-ID"): absent, empty or a client name
HttpClientIds == {PyNone, PyStr(""), PyStr("a")}
\* request.client: absent, or an address whose host is the string
HttpClients == {PyNone, PyStr("h")}
\* time.time() at the requests: two instants, 60 seconds and a window apart
HttpTimes == {PyFloat(10 * Scale + 1), PyFloat(70 * Scale)}
\* get_customer_id, lines 11-23
get_customer_id(client_id, client) ==
    IF Truthy(client_id) THEN PyStr("client:" \o client_id.str)
    ELSE IF Truthy(client) THEN PyStr("ip:" \o client.str)
    ELSE PyStr("ip:unknown")
\* a response that leaves out the 429
HttpResponseAlwaysOk(allowed) == [status |-> 200, body |-> "pong"]
\* lines 35-41 of get_rate_limiter and the body of ping
HttpResponse(allowed) ==
    IF allowed = "False"
      THEN [status |-> 429, body |-> "Rate limit exceeded. Try again later."]
      ELSE [status |-> 200, body |-> "pong"]
NoResponse == [status |-> 0, body |-> ""]
\* the keys under which a decided call can be recorded
LogKeys ==
    CustomerKeys \cup {get_customer_id(h, c).str : h \in HttpClientIds, c \in HttpClients}

VARIABLES
    instance,              \* "none" | "ok" | "raised": outcome of RateLimiter(...)
    ctor_args,             \* the arguments given to the constructor
    rate, time_window,     \* self.rate, self.time_window
    customers,             \* self.customers: key -> <<window_start, count>>
    customer_locks,        \* self._customer_locks: key -> lock object
    locks,                 \* the Lock objects created: lock -> owning thread or 0
    locks_lock,            \* self._locks_lock: owning thread or 0
    pc,                    \* position of each thread, by source line
    customer_id,           \* argument of the running call
    current_time,          \* argument of the running call
    current_window_start,  \* local of the running call
    customer_lock,         \* local: the lock object taken from the defaultdict
    window_start,          \* local read at line 64
    request_count,         \* local read at line 64
    ret,                   \* what the running call is about to return or raise
    ncalls,                \* history: number of calls started
    log,                   \* history: per customer, the decided calls in order
    response               \* the HTTP response last sent by each thread

shared == <<instance, ctor_args, rate, time_window, customers, customer_locks,
            locks, locks_lock>>
locals == <<customer_id, current_time, current_window_start, customer_lock,
            window_start, request_count>>
vars == <<shared, locals, pc, ret, ncalls, log, response>>

\* --------------------------------------------------------- constructor
\* a constructor that lets a rate of zero through
RateIsValidNonNegative(r) == IsInstanceInt(r) /\ r.val >= 0
\* line 17
RateIsValid(r) == IsInstanceInt(r) /\ ~AtMostZero(r)
\* line 19
TimeWindowIsValid(w) == IsInstanceInt(w) /\ ~AtMostZero(w)

Init ==
    /\ instance = "none"
    /\ ctor_args = <<NoValue, NoValue>>
    /\ rate = 0
    /\ time_window = 0
    /\ customers = <<>>
    /\ customer_locks = <<>>
    /\ locks = <<>>
    /\ locks_lock = 0
    /\ pc = [t \in Threads |-> "idle"]
    /\ customer_id = [t \in Threads |-> NoValue]
    /\ current_time = [t \in Threads |-> NoValue]
    /\ current_window_start = [t \in Threads |-> 0]
    /\ customer_lock = [t \in Threads |-> 0]
    /\ window_start = [t \in Threads |-> 0]
    /\ request_count = [t \in Threads |-> 0]
    /\ ret = [t \in Threads |-> "none"]
    /\ ncalls = 0
    /\ log = [k \in LogKeys |-> <<>>]
    /\ response = [t \in Threads |-> NoResponse]

\* RateLimiter(r, w): __init__, lines 17-30
Construct(r, w) ==
    /\ instance = "none"
    /\ ctor_args' = <<r, w>>
    /\ IF RateIsValid(r) /\ TimeWindowIsValid(w)
         THEN /\ instance' = "ok"
              /\ rate' = r.val \div Scale
              /\ time_window' = w.val \div Scale
              /\ customers' = <<>>
              /\ customer_locks' = <<>>
              /\ locks_lock' = 0
         ELSE /\ instance' = "raised"
              /\ UNCHANGED <<rate, time_window, customers, customer_locks, locks_lock>>
    /\ UNCHANGED <<locks, locals, pc, ret, ncalls, log, response>>

\* ---------------------------------------------------------- is_allowed
\* line 43
CustomerIdIsValid(c) == Truthy(c) /\ IsInstanceStr(c)
\* a validation that forgets the sign of current_time
CurrentTimeIsValidAnySign(n) == IsInstanceNumber(n)
\* line 45
CurrentTimeIsValid(n) == IsInstanceNumber(n) /\ ~LessThanZero(n)
\* line 48: int(current_time) truncates; int(nan) and int(inf) raise
CanTruncate(n) == n.kind \notin {"nan", "inf"}
\* a conversion that rounds to the nearest second, as round() would
TruncateTimeRounded(n) == (n.val + Scale \div 2) \div Scale
\* line 48: int(current_time), the integer part of a number that is not negative
TruncateTime(n) == n.val \div Scale
\* a window start that is not aligned to a multiple of the window
WindowStartUnaligned(seconds, w) == seconds
\* line 49
WindowStartOf(seconds, w) == (seconds \div w) * w
\* a comparison that also resets inside the stored window
IsNewWindowOrSame(cws, ws) == cws >= ws
\* a reset on every window other than the stored one
IsNewWindowOrEarlier(cws, ws) == cws /= ws
\* line 67
IsNewWindow(cws, ws) == cws > ws
\* a comparison that admits one request too many
RateExceededStrict(count, r) == count > r
\* line 73
RateExceeded(count, r) == count >= r
\* one table entry shared by every customer
KeyShared(c) == "a"
\* the dictionary key of a customer_id in self.customers and self._customer_locks
Key(c) == c.str
\* a first entry that does not count the request that created it
NewCustomerEntryUncounted(cws) == <<cws, 0>>
\* line 60: the entry of a new customer
NewCustomerEntry(cws) == <<cws, 1>>
\* a reset that does not count the request that caused it
ResetEntryUncounted(cws) == <<cws, 0>>
\* line 69: the entry after a reset
ResetEntry(cws) == <<cws, 1>>
\* an increment that was forgotten: the entry is written back as read
IncrementedEntryFrozen(ws, count) == <<ws, count>>
\* line 78: the entry after an admitted request in the stored window
IncrementedEntry(ws, count) == <<ws, count + 1>>

\* lines 57-79 run for the calls of one customer alone: the entry and the
\* results a limiter reaches that sees only the calls at seconds `ats`
RECURSIVE Solo(_, _, _)
Solo(ats, entry, results) ==
    IF ats = <<>> THEN [entry |-> entry, results |-> results]
    ELSE LET cws == WindowStartOf(Head(ats), time_window)
         IN IF entry = <<>>
              THEN Solo(Tail(ats), NewCustomerEntry(cws), Append(results, TRUE))
            ELSE IF IsNewWindow(cws, entry[1])
              THEN Solo(Tail(ats), ResetEntry(cws), Append(results, TRUE))
            ELSE IF RateExceeded(entry[2], rate)
              THEN Solo(Tail(ats), entry, Append(results, FALSE))
            ELSE Solo(Tail(ats), IncrementedEntry(entry[1], entry[2]),
                      Append(results, TRUE))

\* dict[k] = v
Store(d, k, v) == [x \in DOMAIN d \cup {k} |-> IF x = k THEN v ELSE d[x]]

ClearLocals(t) ==
    /\ customer_id' = [customer_id EXCEPT ![t] = NoValue]
    /\ current_time' = [current_time EXCEPT ![t] = NoValue]
    /\ current_window_start' = [current_window_start EXCEPT ![t] = 0]
    /\ customer_lock' = [customer_lock EXCEPT ![t] = 0]
    /\ window_start' = [window_start EXCEPT ![t] = 0]
    /\ request_count' = [request_count EXCEPT ![t] = 0]
    /\ ret' = [ret EXCEPT ![t] = "none"]

\* lines 32-49: entry, validation and the window arithmetic, all on locals
Call(t, c, n) ==
    /\ instance = "ok"
    /\ pc[t] = "idle"
    /\ ncalls' = ncalls + 1
    /\ customer_id' = [customer_id EXCEPT ![t] = c]
    /\ current_time' = [current_time EXCEPT ![t] = n]
    /\ IF ~CustomerIdIsValid(c) \/ ~CurrentTimeIsValid(n)
         THEN /\ ret' = [ret EXCEPT ![t] = "ValueError"]
              /\ pc' = [pc EXCEPT ![t] = "raised"]
              /\ UNCHANGED current_window_start
         ELSE IF ~CanTruncate(n)
         THEN /\ ret' = [ret EXCEPT ![t] =
                           IF n.kind = "nan" THEN "ValueError" ELSE "OverflowError"]
              /\ pc' = [pc EXCEPT ![t] = "raised"]
              /\ UNCHANGED current_window_start
         ELSE /\ current_window_start' = [current_window_start EXCEPT ![t] =
                                            WindowStartOf(TruncateTime(n), time_window)]
              /\ pc' = [pc EXCEPT ![t] = "l52"]
              /\ UNCHANGED ret
    /\ UNCHANGED <<shared, customer_lock, window_start, request_count, log, response>>

\* line 52: with self._locks_lock (enter)
AcquireLocksLock(t) ==
    /\ pc[t] = "l52"
    /\ locks_lock = 0
    /\ locks_lock' = t
    /\ pc' = [pc EXCEPT ![t] = "l53"]
    /\ UNCHANGED <<instance, ctor_args, rate, time_window, customers,
                   customer_locks, locks, locals, ret, ncalls, log, response>>

\* a lock table that hands the same Lock to every customer
GetCustomerLockShared(t) ==
    /\ pc[t] = "l53"
    /\ locks' = Store(locks, 1, IF 1 \in DOMAIN locks THEN locks[1] ELSE 0)
    /\ customer_locks' = Store(customer_locks, Key(customer_id[t]), 1)
    /\ customer_lock' = [customer_lock EXCEPT ![t] = 1]
    /\ pc' = [pc EXCEPT ![t] = "l54"]
    /\ UNCHANGED <<instance, ctor_args, rate, time_window, customers, locks_lock,
                   customer_id, current_time, current_window_start,
                   window_start, request_count, ret, ncalls, log, response>>

\* a lookup that makes a new Lock on every call
GetCustomerLockAlwaysFresh(t) ==
    /\ pc[t] = "l53"
    /\ LET fresh == Cardinality(DOMAIN locks) + 1
       IN /\ locks' = Store(locks, fresh, 0)
          /\ customer_locks' = Store(customer_locks, Key(customer_id[t]), fresh)
          /\ customer_lock' = [customer_lock EXCEPT ![t] = fresh]
    /\ pc' = [pc EXCEPT ![t] = "l54"]
    /\ UNCHANGED <<instance, ctor_args, rate, time_window, customers, locks_lock,
                   customer_id, current_time, current_window_start,
                   window_start, request_count, ret, ncalls, log, response>>

\* line 53: self._customer_locks[customer_id]; a missing key makes the
\* defaultdict create a new Lock and store it
GetCustomerLock(t) ==
    /\ pc[t] = "l53"
    /\ LET k == Key(customer_id[t])
           fresh == Cardinality(DOMAIN locks) + 1
       IN IF k \in DOMAIN customer_locks
            THEN /\ customer_lock' = [customer_lock EXCEPT ![t] = customer_locks[k]]
                 /\ UNCHANGED <<customer_locks, locks>>
            ELSE /\ locks' = Store(locks, fresh, 0)
                 /\ customer_locks' = Store(customer_locks, k, fresh)
                 /\ customer_lock' = [customer_lock EXCEPT ![t] = fresh]
    /\ pc' = [pc EXCEPT ![t] = "l54"]
    /\ UNCHANGED <<instance, ctor_args, rate, time_window, customers, locks_lock,
                   customer_id, current_time, current_window_start,
                   window_start, request_count, ret, ncalls, log, response>>

\* the with block of line 56 nested in the one of line 52: the thread goes
\* on to the customer lock with self._locks_lock still held
ReleaseLocksLockLate(t) ==
    /\ pc[t] = "l54"
    /\ pc' = [pc EXCEPT ![t] = "l56"]
    /\ UNCHANGED <<instance, ctor_args, rate, time_window, customers, locks_lock,
                   customer_locks, locks, locals, ret, ncalls, log, response>>

\* end of the with block of line 52: self._locks_lock is released
ReleaseLocksLock(t) ==
    /\ pc[t] = "l54"
    /\ locks_lock' = IF locks_lock = t THEN 0 ELSE locks_lock
    /\ pc' = [pc EXCEPT ![t] = "l56"]
    /\ UNCHANGED <<instance, ctor_args, rate, time_window, customers,
                   customer_locks, locks, locals, ret, ncalls, log, response>>

\* a with block that does not wait for the owner of the lock
AcquireCustomerLockNoWait(t) ==
    /\ pc[t] = "l56"
    /\ locks' = [locks EXCEPT ![customer_lock[t]] = t]
    /\ pc' = [pc EXCEPT ![t] = "l58"]
    /\ UNCHANGED <<instance, ctor_args, rate, time_window, customers,
                   customer_locks, locks_lock, locals, ret, ncalls, log, response>>

\* line 56: with customer_lock (enter)
AcquireCustomerLock(t) ==
    /\ pc[t] = "l56"
    /\ locks[customer_lock[t]] = 0
    /\ locks' = [locks EXCEPT ![customer_lock[t]] = t]
    /\ pc' = [pc EXCEPT ![t] = "l58"]
    /\ UNCHANGED <<instance, ctor_args, rate, time_window, customers,
                   customer_locks, locks_lock, locals, ret, ncalls, log, response>>

\* line 58: if customer_id not in self.customers
CheckCustomer(t) ==
    /\ pc[t] = "l58"
    /\ pc' = [pc EXCEPT ![t] =
                IF Key(customer_id[t]) \notin DOMAIN customers THEN "l60" ELSE "l64"]
    /\ UNCHANGED <<shared, locals, ret, ncalls, log, response>>

\* the history entry of a decided call: truncated timestamp and result
Decided(t, result) ==
    [log EXCEPT ![customer_id[t].str] =
        Append(@, [at |-> TruncateTime(current_time[t]), res |-> result])]

\* a create branch that rebuilds the table with the new customer alone
CreateCustomerAlone(t) ==
    /\ pc[t] = "l60"
    /\ customers' = [x \in {Key(customer_id[t])} |-> NewCustomerEntry(current_window_start[t])]
    /\ ret' = [ret EXCEPT ![t] = "True"]
    /\ log' = Decided(t, TRUE)
    /\ pc' = [pc EXCEPT ![t] = "exit"]
    /\ UNCHANGED <<instance, ctor_args, rate, time_window, customer_locks, locks,
                   locks_lock, locals, ncalls, response>>

\* lines 60-61: new customer
CreateCustomer(t) ==
    /\ pc[t] = "l60"
    /\ customers' = Store(customers, Key(customer_id[t]),
                             NewCustomerEntry(current_window_start[t]))
    /\ ret' = [ret EXCEPT ![t] = "True"]
    /\ log' = Decided(t, TRUE)
    /\ pc' = [pc EXCEPT ![t] = "exit"]
    /\ UNCHANGED <<instance, ctor_args, rate, time_window, customer_locks, locks,
                   locks_lock, locals, ncalls, response>>

\* line 64: window_start, request_count = self.customers[customer_id]
ReadCustomer(t) ==
    /\ pc[t] = "l64"
    /\ Key(customer_id[t]) \in DOMAIN customers
    /\ window_start' = [window_start EXCEPT ![t] = customers[Key(customer_id[t])][1]]
    /\ request_count' = [request_count EXCEPT ![t] = customers[Key(customer_id[t])][2]]
    /\ pc' = [pc EXCEPT ![t] = "l67"]
    /\ UNCHANGED <<shared, customer_id, current_time, current_window_start,
                   customer_lock, ret, ncalls, log, response>>

\* a decision that counts the request it rejects
DecideCountingRejected(t) ==
    /\ pc[t] = "l67"
    /\ IF IsNewWindow(current_window_start[t], window_start[t])
         THEN /\ customers' = Store(customers, Key(customer_id[t]),
                                    ResetEntry(current_window_start[t]))
              /\ ret' = [ret EXCEPT ![t] = "True"]
              /\ log' = Decided(t, TRUE)
         ELSE /\ customers' = Store(customers, Key(customer_id[t]),
                                    IncrementedEntry(window_start[t], request_count[t]))
              /\ ret' = [ret EXCEPT ![t] =
                           IF RateExceeded(request_count[t], rate) THEN "False" ELSE "True"]
              /\ log' = Decided(t, ~RateExceeded(request_count[t], rate))
    /\ pc' = [pc EXCEPT ![t] = "exit"]
    /\ UNCHANGED <<instance, ctor_args, rate, time_window, customer_locks, locks,
                   locks_lock, locals, ncalls, response>>

\* lines 67-79: reset, reject or increment, decided on the locals
Decide(t) ==
    /\ pc[t] = "l67"
    /\ IF IsNewWindow(current_window_start[t], window_start[t])
         THEN /\ customers' = Store(customers, Key(customer_id[t]),
                                    ResetEntry(current_window_start[t]))
              /\ ret' = [ret EXCEPT ![t] = "True"]
              /\ log' = Decided(t, TRUE)
         ELSE IF RateExceeded(request_count[t], rate)
         THEN /\ UNCHANGED customers
              /\ ret' = [ret EXCEPT ![t] = "False"]
              /\ log' = Decided(t, FALSE)
         ELSE /\ customers' = Store(customers, Key(customer_id[t]),
                                    IncrementedEntry(window_start[t], request_count[t]))
              /\ ret' = [ret EXCEPT ![t] = "True"]
              /\ log' = Decided(t, TRUE)
    /\ pc' = [pc EXCEPT ![t] = "exit"]
    /\ UNCHANGED <<instance, ctor_args, rate, time_window, customer_locks, locks,
                   locks_lock, locals, ncalls, response>>

\* leaving the with block of line 56 on return: customer_lock is released
\* and the caller gets the result
ReleaseCustomerLock(t) ==
    /\ pc[t] = "exit"
    /\ locks' = [locks EXCEPT ![customer_lock[t]] = IF @ = t THEN 0 ELSE @]
    /\ pc' = [pc EXCEPT ![t] = "idle"]
    /\ ClearLocals(t)
    /\ UNCHANGED <<instance, ctor_args, rate, time_window, customers,
                   customer_locks, locks_lock, ncalls, log, response>>

\* the exception of line 44, 46 or 48 reaches the caller
Raise(t) ==
    /\ pc[t] = "raised"
    /\ pc' = [pc EXCEPT ![t] = "idle"]
    /\ ClearLocals(t)
    /\ UNCHANGED <<shared, ncalls, log, response>>

\* lru_cache: the first request builds the one RateLimiter(rate=5, time_window=60)
get_rate_limiter_instance == Construct(PyInt(HttpRate), PyInt(HttpWindow))

\* the clock read by time.time() has not gone back since the earlier requests
ClockReads(now) ==
    \A k \in LogKeys : \A i \in 1..Len(log[k]) : log[k][i].at <= TruncateTime(now)

\* get_rate_limiter, lines 29-35: the identity of the request, the clock,
\* and the call of limiter.is_allowed
get_rate_limiter(t, client_id, client, now) ==
    /\ ClockReads(now)
    /\ Call(t, get_customer_id(client_id, client), now)

\* is_allowed returns to get_rate_limiter, leaving the with block of line
\* 56; lines 35-41 raise the 429 or let ping answer
Respond(t) ==
    /\ pc[t] = "exit"
    /\ locks' = [locks EXCEPT ![customer_lock[t]] = IF @ = t THEN 0 ELSE @]
    /\ pc' = [pc EXCEPT ![t] = "idle"]
    /\ ClearLocals(t)
    /\ response' = [response EXCEPT ![t] = HttpResponse(ret[t])]
    /\ UNCHANGED <<instance, ctor_args, rate, time_window, customers,
                   customer_locks, locks_lock, ncalls, log>>

\* threads call is_allowed concurrently with valid arguments
Next ==
    \/ \E r \in Rates, w \in Windows : Construct(r, w)
    \/ \E t \in Threads, c \in Customers, n \in ConcurrentTimes :
          ncalls < MaxCalls /\ Call(t, c, n)
    \/ \E t \in Threads : AcquireLocksLock(t)
    \/ \E t \in Threads : GetCustomerLock(t)
    \/ \E t \in Threads : ReleaseLocksLock(t)
    \/ \E t \in Threads : AcquireCustomerLock(t)
    \/ \E t \in Threads : CheckCustomer(t)
    \/ \E t \in Threads : CreateCustomer(t)
    \/ \E t \in Threads : ReadCustomer(t)
    \/ \E t \in Threads : Decide(t)
    \/ \E t \in Threads : ReleaseCustomerLock(t)

Spec == Init /\ [][Next]_vars

\* one thread makes calls for one customer one after the other, at any
\* valid timestamps in any order
SeqNext ==
    \/ \E r \in Rates, w \in Windows : Construct(r, w)
    \/ \E n \in Times : ncalls < MaxSeqCalls /\ Call(1, PyStr("a"), n)
    \/ AcquireLocksLock(1)
    \/ GetCustomerLock(1)
    \/ ReleaseLocksLock(1)
    \/ AcquireCustomerLock(1)
    \/ CheckCustomer(1)
    \/ CreateCustomer(1)
    \/ ReadCustomer(1)
    \/ Decide(1)
    \/ ReleaseCustomerLock(1)

SeqSpec == Init /\ [][SeqNext]_vars

\* the constructor and is_allowed are called with any arguments
ArgNext ==
    \/ \E r \in RateInputs, w \in WindowInputs : Construct(r, w)
    \/ \E c \in CustomerInputs, n \in TimeInputs :
          ncalls < MaxArgCalls /\ Call(1, c, n)
    \/ AcquireLocksLock(1)
    \/ GetCustomerLock(1)
    \/ ReleaseLocksLock(1)
    \/ AcquireCustomerLock(1)
    \/ CheckCustomer(1)
    \/ CreateCustomer(1)
    \/ ReadCustomer(1)
    \/ Decide(1)
    \/ ReleaseCustomerLock(1)
    \/ Raise(1)

ArgSpec == Init /\ [][ArgNext]_vars

\* timestamps of the concurrent calls, with a negative and an infinite one
FairTimes == ConcurrentTimes \cup {PyInt(-1), PyInf}

\* one step of thread t inside a call it has started
Step(t) ==
    \/ AcquireLocksLock(t)
    \/ GetCustomerLock(t)
    \/ ReleaseLocksLock(t)
    \/ AcquireCustomerLock(t)
    \/ CheckCustomer(t)
    \/ CreateCustomer(t)
    \/ ReadCustomer(t)
    \/ Decide(t)
    \/ ReleaseCustomerLock(t)
    \/ Raise(t)

\* threads call is_allowed concurrently with any number as the timestamp
FairNext ==
    \/ \E r \in Rates, w \in Windows : Construct(r, w)
    \/ \E t \in Threads, c \in Customers, n \in FairTimes :
          ncalls < MaxCalls /\ Call(t, c, n)
    \/ \E t \in Threads : Step(t)

\* the scheduler lets every thread that can take a step take one in the end
FairSpec == Init /\ [][FairNext]_vars /\ \A t \in Threads : WF_vars(Step(t))

\* GET /api/v1/ping requests served one after the other
HttpNext ==
    \/ get_rate_limiter_instance
    \/ \E h \in HttpClientIds, c \in HttpClients, now \in HttpTimes :
          ncalls < MaxHttpCalls /\ get_rate_limiter(1, h, c, now)
    \/ AcquireLocksLock(1)
    \/ GetCustomerLock(1)
    \/ ReleaseLocksLock(1)
    \/ AcquireCustomerLock(1)
    \/ CheckCustomer(1)
    \/ CreateCustomer(1)
    \/ ReadCustomer(1)
    \/ Decide(1)
    \/ Respond(1)

HttpSpec == Init /\ [][HttpNext]_vars

\* ------------------------------------------------------------ properties
\* the windows a timestamp of the model can fall in
WindowIndexes == 0..(MaxTime + 1)
\* second `at` lies in the window [k * time_window, (k + 1) * time_window)
InWindow(at, k) == k * time_window <= at /\ at < (k + 1) * time_window
\* the window start the documentation gives for second `at`
AlignedStart(at) == CHOOSE ws \in 0..at : ws % time_window = 0 /\ at < ws + time_window
\* positions of the calls of customer c that returned True in window k
AdmittedIn(c, k) == {i \in 1..Len(log[c]) : log[c][i].res /\ InWindow(log[c][i].at, k)}
\* every decided call of customer c fell in window k
AllInWindow(c, k) == \A i \in 1..Len(log[c]) : InWindow(log[c][i].at, k)
\* no thread is inside a call for customer c
Quiet(c) == \A t \in Threads : pc[t] = "idle" \/ customer_id[t].str /= c
Min(x, y) == IF x <= y THEN x ELSE y

\* C1: for every customer and every window, the calls that returned True
\* with a truncated timestamp in that window number at most rate, for
\* timestamps in any order.
C1_AdmittedPerWindowWithinRate ==
    instance = "ok" =>
        \A c \in CustomerKeys, k \in WindowIndexes : Cardinality(AdmittedIn(c, k)) <= rate

\* C2: when the calls the threads made for a previously unseen customer all
\* fall in one window and all have returned, exactly min(N, rate) of the N
\* calls returned True, whatever the interleaving.
C2_ConcurrentAdmitsMinNRate ==
    instance = "ok" =>
        \A c \in CustomerKeys, k \in WindowIndexes :
            (AllInWindow(c, k) /\ Quiet(c)) =>
                Cardinality(AdmittedIn(c, k)) = Min(Len(log[c]), rate)

\* C2 happens: three calls of two threads for one customer in one window
\* have returned, two of them admitted under rate 2.
C2_Witness ==
    /\ instance = "ok" /\ rate = 2
    /\ \A t \in Threads : pc[t] = "idle"
    /\ Len(log["a"]) = 3 /\ AllInWindow("a", 0)
    /\ Cardinality(AdmittedIn("a", 0)) = 2

\* C3: for a previously unseen customer whose calls all fall in one window,
\* exactly the first rate calls return True and every later call returns
\* False.
C3_FirstRateCallsAdmitted ==
    instance = "ok" =>
        \A c \in CustomerKeys, k \in WindowIndexes :
            AllInWindow(c, k) =>
                \A i \in 1..Len(log[c]) : log[c][i].res = (i <= rate)

\* C3 happens: rate + 2 calls in one window, the last two rejected.
C3_Witness ==
    /\ instance = "ok" /\ rate = 2
    /\ Len(log["a"]) = 4 /\ AllInWindow("a", 1)
    /\ ~log["a"][3].res /\ ~log["a"][4].res

\* C4: a call at time t with floor(t) >= ws + time_window, made when the
\* customer's entry is (ws, c) for any c, returns True and sets the entry
\* to ((floor(t) // time_window) * time_window, 1).
C4_RolloverResets ==
    [][\A t \in Threads :
          (/\ pc[t] = "l67" /\ pc'[t] = "exit"
           /\ current_time[t].val \div Scale
                >= customers[customer_id[t].str][1] + time_window)
          => (/\ ret'[t] = "True"
              /\ customers'[customer_id[t].str]
                   = <<AlignedStart(current_time[t].val \div Scale), 1>>)]_vars

\* C4 happens: the entry held count = rate in window 0 and a call that
\* skips a whole window was admitted with the count back at 1.
C4_Witness ==
    /\ instance = "ok" /\ rate = 2 /\ time_window = 2
    /\ Len(log["a"]) = 3
    /\ log["a"][1].at = 0 /\ log["a"][2].at = 1 /\ log["a"][2].res
    /\ log["a"][3].at = 4 /\ log["a"][3].res
    /\ customers["a"] = <<4, 1>>
    /\ \E t \in Threads : pc[t] = "exit" /\ ret[t] = "True"

\* C5: the first call for a customer that is not in the table returns True
\* and creates the entry ((floor(t) // time_window) * time_window, 1).
C5_FirstCallCreatesEntry ==
    instance = "ok" =>
        \A c \in CustomerKeys :
            /\ c \in DOMAIN customers <=> Len(log[c]) >= 1
            /\ Len(log[c]) >= 1 => log[c][1].res
            /\ Len(log[c]) = 1 => customers[c] = <<AlignedStart(log[c][1].at), 1>>

\* C5 happens: one call, at a fractional time inside window 0, has created
\* the entry of the customer.
C5_Witness ==
    /\ instance = "ok" /\ time_window = 2
    /\ \E t \in Threads :
          /\ pc[t] = "exit" /\ ret[t] = "True"
          /\ customer_id[t] = PyStr("b") /\ current_time[t] = PyFloat(3)
    /\ Len(log["b"]) = 1 /\ customers["b"] = <<0, 1>>

\* C6: the results returned to a customer and the customer's entry are those
\* of a limiter that sees that customer's calls alone, whatever calls for
\* the other customer are interleaved with them.
C6_CustomersIsolated ==
    instance = "ok" =>
        \A c \in CustomerKeys :
            LET alone == Solo([i \in 1..Len(log[c]) |-> log[c][i].at], <<>>, <<>>)
            IN /\ \A i \in 1..Len(log[c]) : log[c][i].res = alone.results[i]
               /\ IF c \in DOMAIN customers
                    THEN customers[c] = alone.entry
                    ELSE Len(log[c]) = 0

\* C6 happens: customer a is rejected in window 0 under rate 1 while
\* customer b has been admitted in a later window.
C6_Witness ==
    /\ instance = "ok" /\ rate = 1
    /\ Len(log["a"]) = 2 /\ log["a"][2].at = 1 /\ ~log["a"][2].res
    /\ Len(log["b"]) = 1 /\ log["b"][1].at = 4
    /\ customers = [k \in CustomerKeys |-> IF k = "a" THEN <<0, 1>> ELSE <<4, 1>>]

\* customer_id is empty, None or not a string
BadCustomerId(c) == c.kind /= "str" \/ c.str = ""
\* current_time is negative or not a number
BadCurrentTime(n) ==
    \/ n.kind \in {"str", "none"}
    \/ n.kind \in {"int", "float"} /\ n.val < 0

\* C7: a call with an empty, None or non-string customer_id, or with a
\* negative or non-numeric current_time, raises ValueError whatever the
\* other argument is, and the customers table and the lock table are the
\* same after the call as before it.
C7_InvalidArgumentsRaise ==
    [][\A t \in Threads :
          /\ (/\ pc[t] = "idle" /\ pc'[t] /= "idle"
              /\ BadCustomerId(customer_id'[t]) \/ BadCurrentTime(current_time'[t]))
             => (/\ pc'[t] = "raised" /\ ret'[t] = "ValueError"
                 /\ UNCHANGED <<customers, customer_locks, locks>>)
          /\ (pc[t] = "raised" /\ pc'[t] = "idle")
             => UNCHANGED <<customers, customer_locks, locks>>]_vars

\* C7 happens: with one customer already in the table, a call for a valid
\* customer at a negative time has raised ValueError.
C7_Witness ==
    /\ DOMAIN customers = {"a"} /\ DOMAIN customer_locks = {"a"}
    /\ \E t \in Threads :
          /\ pc[t] = "raised" /\ ret[t] = "ValueError"
          /\ customer_id[t] = PyStr("b") /\ current_time[t] = PyInt(-1)

\* rate or time_window is not an integer or is <= 0
NotPositiveInteger(x) == x.kind \notin {"int", "bool"} \/ x.val <= 0

\* C8: RateLimiter(rate, time_window) raises ValueError and yields no
\* limiter whenever rate or time_window is not an integer or is <= 0; with
\* two positive integers it succeeds, stores both and starts with an empty
\* customers table.
C8_ConstructorValidates ==
    instance /= "none" =>
        /\ instance = "raised"
             <=> (NotPositiveInteger(ctor_args[1]) \/ NotPositiveInteger(ctor_args[2]))
        /\ instance = "raised" =>
             rate = 0 /\ time_window = 0 /\ ncalls = 0 /\ customers = <<>>
        /\ instance = "ok" =>
             /\ rate * Scale = ctor_args[1].val
             /\ time_window * Scale = ctor_args[2].val
             /\ ncalls = 0 => customers = <<>>

\* C8 happens: a positive rate with a float time_window was refused.
C8_Witness ==
    /\ instance = "raised"
    /\ ctor_args = <<PyInt(2), PyFloat(2 * Scale)>>

\* C9: a valid call returns True if and only if, before it, fewer than rate
\* calls of the customer with a truncated timestamp in the same window had
\* returned True, in any sequence of calls.
C9_AdmitIffWindowCountBelowRate ==
    instance = "ok" =>
        \A c \in CustomerKeys, k \in WindowIndexes :
            \A i \in 1..Len(log[c]) :
                InWindow(log[c][i].at, k) =>
                    (log[c][i].res
                       <=> Cardinality({j \in AdmittedIn(c, k) : j < i}) < rate)

\* C10: when a previously unseen customer makes rate calls in window k and
\* then rate + 1 calls in window k + 1, the first 2 * rate calls return
\* True and the last one returns False.
C10_BoundaryBurst ==
    instance = "ok" =>
        \A c \in CustomerKeys, k \in WindowIndexes :
            (/\ Len(log[c]) <= 2 * rate + 1
             /\ \A i \in 1..Len(log[c]) :
                   IF i <= rate THEN InWindow(log[c][i].at, k)
                                ELSE InWindow(log[c][i].at, k + 1))
            => \A i \in 1..Len(log[c]) : log[c][i].res = (i <= 2 * rate)

\* C10 happens: under rate 2 and window 2, two calls in the last second of
\* window 0 and two in the first second of window 1 were admitted, within
\* less than a window, and the fifth call was rejected.
C10_Witness ==
    /\ instance = "ok" /\ rate = 2 /\ time_window = 2
    /\ Len(log["a"]) = 5
    /\ log["a"][1].at = 1 /\ log["a"][2].at = 1
    /\ \A i \in 3..5 : log["a"][i].at = 2
    /\ \A i \in 1..4 : log["a"][i].res
    /\ ~log["a"][5].res
    /\ customers["a"] = <<2, 2>>

\* thread t is inside a call and has taken its lock object from the table
HasCustomerLock(t) == pc[t] \in {"l54", "l56", "l58", "l60", "l64", "l67", "exit"}
\* thread t is between acquiring and releasing its per-customer lock
InCritical(t) == pc[t] \in {"l58", "l60", "l64", "l67", "exit"}
\* thread t is inside a call that passed validation
InCall(t) == pc[t] \in {"l52", "l53"} \/ HasCustomerLock(t)
\* thread t waits for a lock that thread u holds
WaitsFor(t, u) ==
    \/ pc[t] = "l52" /\ locks_lock = u
    \/ pc[t] = "l56" /\ locks[customer_lock[t]] = u

\* C11: two concurrent calls for different customers acquire no common
\* lock, so neither is ever made to wait by the other.
C11_NoCommonLock ==
    \A t, u \in Threads :
        (InCall(t) /\ InCall(u) /\ customer_id[t] /= customer_id[u]) => ~WaitsFor(t, u)

\* C11 as amended: two concurrent calls for different customers take
\* different per-customer Lock objects and never wait for each other at
\* line 56; the one lock both acquire is _locks_lock, and it is held only
\* for the table lookup of line 53, never during the decision.
C11_NoCommonCustomerLock ==
    /\ \A t, u \in Threads :
          (HasCustomerLock(t) /\ HasCustomerLock(u) /\ customer_id[t] /= customer_id[u])
          => /\ customer_lock[t] /= customer_lock[u]
             /\ ~(pc[t] = "l56" /\ locks[customer_lock[t]] = u)
    /\ \A t \in Threads : locks_lock = t => pc[t] \in {"l53", "l54"}

\* C11 happens: two threads are inside the critical sections of two
\* different customers at the same time.
C11_Witness ==
    \E t, u \in Threads :
        /\ pc[t] = "l67" /\ pc[u] = "l60"
        /\ customer_id[t] = PyStr("a") /\ customer_id[u] = PyStr("b")
        /\ locks[customer_lock[t]] = t /\ locks[customer_lock[u]] = u

\* C12: threads that concurrently make the first calls for one customer all
\* get the same Lock object; one of them creates the entry and none writes
\* a fresh (window, 1) over an entry that is already there.
C12_FirstCallsShareLock ==
    /\ [](\A t \in Threads :
            /\ HasCustomerLock(t) =>
                 /\ customer_id[t].str \in DOMAIN customer_locks
                 /\ customer_lock[t] = customer_locks[customer_id[t].str]
            /\ pc[t] = "l60" =>
                 /\ customer_id[t].str \notin DOMAIN customers
                 /\ \A u \in Threads \ {t} :
                       pc[u] = "l60" => customer_id[u] /= customer_id[t])
    /\ [][\A t \in Threads :
            (pc[t] = "l60" /\ pc'[t] = "exit")
            => /\ customer_id[t].str \notin DOMAIN customers
               /\ DOMAIN customers' = DOMAIN customers \cup {customer_id[t].str}]_vars

\* C12 happens: one thread is about to create the entry of a customer that
\* is not in the table while another thread, holding the same Lock object,
\* waits at line 56 with its own first call for that customer.
C12_Witness ==
    \E t, u \in Threads :
        /\ pc[t] = "l60" /\ pc[u] = "l56"
        /\ customer_id[t] = PyStr("a") /\ customer_id[u] = PyStr("a")
        /\ customer_lock[t] = customer_lock[u]
        /\ "a" \notin DOMAIN customers /\ log["a"] = <<>>

\* C13: the HTTP dependency answers 429 exactly when is_allowed returned
\* False and lets the request through, 200 with pong, when it returned
\* True; so the request of one identity that follows rate admitted requests
\* of one window gets 429 and its first request of a later window gets 200.
C13_Http429IffRejected ==
    [][\A t \in Threads :
          (pc[t] = "exit" /\ pc'[t] = "idle")
          => LET k == customer_id[t].str
                 n == Len(log[k])
                 ws(i) == AlignedStart(log[k][i].at)
             IN /\ (response'[t].status = 429) <=> (ret[t] = "False")
                /\ (response'[t] = [status |-> 200, body |-> "pong"]) <=> (ret[t] = "True")
                /\ (n = rate + 1 /\ \A i \in 1..n : ws(i) = ws(1))
                     => response'[t].status = 429
                /\ (n >= 2 /\ \A i \in 1..(n - 1) : ws(i) < ws(n))
                     => response'[t].status = 200]_vars

\* C13 happens: five requests with X-Client-ID a were let through and the
\* sixth refused in the window of second 10, and the request at second 70
\* was answered 200.
C13_Witness ==
    /\ rate = HttpRate /\ time_window = HttpWindow
    /\ Len(log["client:a"]) = HttpRate + 2
    /\ \A i \in 1..(HttpRate + 1) :
          log["client:a"][i].at = 10 /\ log["client:a"][i].res = (i <= HttpRate)
    /\ log["client:a"][HttpRate + 2] = [at |-> 70, res |-> TRUE]
    /\ pc[1] = "idle" /\ response[1] = [status |-> 200, body |-> "pong"]

\* C14: a call that returns False leaves the customers table as it was; the
\* table changes only in a call that returns True.
C14_RejectionLeavesTable ==
    [][/\ \A t \in Threads :
            (pc[t] = "l67" /\ pc'[t] = "exit" /\ ret'[t] = "False")
            => customers' = customers
       /\ customers' /= customers
            => \E t \in Threads :
                  /\ pc[t] \in {"l60", "l67"} /\ pc'[t] = "exit"
                  /\ ret'[t] = "True"]_vars

\* C14 happens: a call was rejected with the entry at count = rate, and the
\* entry still holds the one admitted request.
C14_Witness ==
    \E t \in Threads :
        /\ pc[t] = "exit" /\ ret[t] = "False" /\ customer_id[t] = PyStr("b")
        /\ rate = 1 /\ customers["b"] = <<0, 1>>
        /\ Len(log["b"]) = 2 /\ ~log["b"][2].res

\* C15: every entry of the table has 1 <= count <= rate, so the count never
\* passes rate while window_start stays, and every change of an entry's
\* window_start sets its count to 1.
C15_CountBetweenOneAndRate ==
    /\ [](instance = "ok" =>
            \A k \in DOMAIN customers : 1 <= customers[k][2] /\ customers[k][2] <= rate)
    /\ [][\A k \in DOMAIN customers :
            customers'[k][1] /= customers[k][1] => customers'[k][2] = 1]_vars

\* C15 happens: the entry reached count = rate, a request was rejected,
\* and the request of a later window put the count back to 1.
C15_Witness ==
    /\ instance = "ok" /\ rate = 1
    /\ Len(log["b"]) = 3
    /\ log["b"][1] = [at |-> 0, res |-> TRUE]
    /\ log["b"][2] = [at |-> 1, res |-> FALSE]
    /\ log["b"][3] = [at |-> 4, res |-> TRUE]
    /\ customers["b"] = <<4, 1>>

\* C16: in every reachable state the stored count of a customer equals the
\* number of calls that returned True with a truncated timestamp in
\* [window_start, window_start + time_window), for timestamps in any order.
C16_CountIsAdmittedInStoredWindow ==
    instance = "ok" =>
        \A c \in CustomerKeys \cap DOMAIN customers :
            customers[c][2] =
                Cardinality({i \in 1..Len(log[c]) :
                                /\ log[c][i].res
                                /\ customers[c][1] <= log[c][i].at
                                /\ log[c][i].at < customers[c][1] + time_window})

\* C17: a call whose window start is below the stored window_start does not
\* reset: window_start stays, and the call returns False with the table
\* unchanged when count >= rate, and otherwise returns True and adds one
\* to the count.
C17_BackwardTimestampKeepsWindow ==
    [][\A t \in Threads :
          LET k == customer_id[t].str IN
          (/\ pc[t] = "l67" /\ pc'[t] = "exit"
           /\ AlignedStart(TruncateTime(current_time[t])) < customers[k][1])
          => IF customers[k][2] >= rate
               THEN ret'[t] = "False" /\ customers' = customers
               ELSE /\ ret'[t] = "True"
                    /\ customers'[k] = <<customers[k][1], customers[k][2] + 1>>]_vars

\* C17 happens: after a request at second 4 a request at second 0 was
\* admitted into the stored window 4.
C17_Witness ==
    /\ instance = "ok" /\ rate = 2 /\ time_window = 2
    /\ log["a"] = <<[at |-> 4, res |-> TRUE], [at |-> 0, res |-> TRUE]>>
    /\ customers["a"] = <<4, 2>>
    /\ pc[1] = "exit" /\ ret[1] = "True"

\* C18: at most one thread is between acquiring and releasing the lock of
\* a customer, and the customer's entry is read and written only by the
\* thread that holds that lock; so after concurrent calls of one window the
\* stored count is the number of calls that returned True.
C18_CustomerLockExclusive ==
    /\ \A t, u \in Threads :
          (t /= u /\ InCritical(t) /\ InCritical(u)) => customer_id[t] /= customer_id[u]
    /\ \A t \in Threads :
          InCritical(t) => /\ customer_lock[t] = customer_locks[customer_id[t].str]
                           /\ locks[customer_lock[t]] = t
    /\ instance = "ok" =>
          \A c \in CustomerKeys \cap DOMAIN customers, k \in WindowIndexes :
              AllInWindow(c, k) => customers[c][2] = Cardinality(AdmittedIn(c, k))

\* C18 happens: one thread decides on a customer's entry under the lock
\* while another thread waits at line 56 for the same lock.
C18_Witness ==
    \E t, u \in Threads :
        /\ pc[t] = "l67" /\ pc[u] = "l56"
        /\ customer_id[t] = customer_id[u]
        /\ customer_lock[t] = customer_lock[u] /\ locks[customer_lock[t]] = t
        /\ Len(log[customer_id[t].str]) = 1

\* the Lock objects of the table that thread t holds
HeldLocks(t) == {l \in DOMAIN locks : locks[l] = t}

\* C19: no thread holds more than one lock at a time: _locks_lock is
\* released before the customer lock is acquired, and a thread never holds
\* the locks of two customers.
C19_AtMostOneLockHeld ==
    \A t \in Threads :
        /\ Cardinality(HeldLocks(t)) <= 1
        /\ locks_lock = t => HeldLocks(t) = {}
        /\ pc[t] \in {"l56", "l58", "l60", "l64", "l67", "exit"} => locks_lock /= t

\* C19 happens: a thread holds a customer lock while another thread holds
\* _locks_lock, each of them holding that one lock only.
C19_Witness ==
    \E t, u \in Threads :
        /\ pc[t] = "l58" /\ HeldLocks(t) = {customer_lock[t]}
        /\ pc[u] = "l53" /\ locks_lock = u /\ HeldLocks(u) = {}

\* C20: under fair scheduling every started is_allowed call returns in the
\* end, with True, False or ValueError; no reachable state is a deadlock;
\* and a call that has returned holds no lock, whichever way it left.
C20_EveryCallReturnsAndFreesLocks ==
    /\ \A t \in Threads : (pc[t] /= "idle") ~> (pc[t] = "idle")
    /\ [](\A t \in Threads :
            pc[t] \in {"exit", "raised"} => ret[t] \in {"True", "False", "ValueError"})
    /\ []((\E t \in Threads : pc[t] /= "idle") => (\E t \in Threads : ENABLED Step(t)))
    /\ [](\A t \in Threads : pc[t] = "idle" => (locks_lock /= t /\ HeldLocks(t) = {}))

\* the integer part of a valid timestamp
Floor(n) == CHOOSE f \in 0..(MaxTime + 1) : f * Scale <= n.val /\ n.val < (f + 1) * Scale
\* what a call at a timestamp with integer part f does to a customer whose
\* entry is `entry` (<<>> when there is none), told from f alone
FloorDecision(entry, f) ==
    IF entry = <<>> THEN [res |-> "True", entry |-> <<AlignedStart(f), 1>>]
    ELSE IF AlignedStart(f) > entry[1] THEN [res |-> "True", entry |-> <<AlignedStart(f), 1>>]
    ELSE IF entry[2] >= rate THEN [res |-> "False", entry |-> entry]
    ELSE [res |-> "True", entry |-> <<entry[1], entry[2] + 1>>]

\* C21: the decision and the update depend on current_time through its
\* integer part only: timestamps with the same floor get the same window,
\* which is (floor(t) // time_window) * time_window, the same result and
\* the same resulting entry.
C21_OnlyIntegerPartCounts ==
    [][\A t \in Threads :
          /\ (pc[t] = "idle" /\ pc'[t] = "l52")
             => current_window_start'[t] = AlignedStart(Floor(current_time'[t]))
          /\ (pc[t] \in {"l60", "l67"} /\ pc'[t] = "exit")
             => LET k == customer_id[t].str
                    told == FloorDecision(IF k \in DOMAIN customers THEN customers[k] ELSE <<>>,
                                          Floor(current_time[t]))
                IN ret'[t] = told.res /\ customers'[k] = told.entry]_vars

\* C21 happens: a call at second 1.5 was counted in window [0, 2) with the
\* call at second 1 and rejected under rate 1.
C21_Witness ==
    /\ instance = "ok" /\ rate = 1 /\ time_window = 2
    /\ pc[1] = "exit" /\ ret[1] = "False"
    /\ current_time[1] = PyFloat(3) /\ current_window_start[1] = 0
    /\ log["a"] = <<[at |-> 1, res |-> TRUE], [at |-> 1, res |-> FALSE]>>
    /\ customers["a"] = <<0, 1>>

\* the customers for which a call has written its decision
DecidedCustomers == {c \in CustomerKeys : Len(log[c]) > 0}
\* the customers for which a call has returned to its caller
ReturnedCustomers ==
    {c \in CustomerKeys :
        Len(log[c]) > Cardinality({t \in Threads : pc[t] = "exit" /\ customer_id[t].str = c})}

\* C22: the table never loses an entry, and its entries are those of the
\* customers for which a valid call has completed: every customer with a
\* returned call has an entry, every entry belongs to a customer with a
\* decided call, and with no call under way the number of entries is the
\* number of customers served.
C22_EntriesNeverLost ==
    /\ [](/\ ReturnedCustomers \subseteq DOMAIN customers
          /\ DOMAIN customers = DecidedCustomers
          /\ (\A t \in Threads : pc[t] = "idle")
               => Cardinality(DOMAIN customers) = Cardinality(ReturnedCustomers))
    /\ [][DOMAIN customers \subseteq DOMAIN customers']_vars

\* C22 happens: two customers have been served, one of them twice, no call
\* is under way and the table holds both.
C22_Witness ==
    /\ \A t \in Threads : pc[t] = "idle"
    /\ Len(log["a"]) = 2 /\ Len(log["b"]) = 1
    /\ DOMAIN customers = {"a", "b"}

\* the sequential limiter run on the decided calls of customer c, in the
\* order in which they held the customer's lock
OneAtATime(c) == Solo([i \in 1..Len(log[c]) |-> log[c][i].at], <<>>, <<>>)

\* C23: in every interleaving of concurrent valid calls, the results
\* returned and the customers table are those of running the same calls one
\* at a time, per customer in the order in which they acquired that
\* customer's lock.
C23_Linearizable ==
    /\ [](instance = "ok" =>
            /\ customers = [c \in DecidedCustomers |-> OneAtATime(c).entry]
            /\ \A c \in CustomerKeys :
                  [i \in 1..Len(log[c]) |-> log[c][i].res] = OneAtATime(c).results)
    /\ [][\A t \in Threads :
            (pc[t] \in {"l60", "l67"} /\ pc'[t] = "exit")
            => LET c == customer_id[t].str IN
               /\ locks[customer_lock[t]] = t
               /\ Len(log'[c]) = Len(log[c]) + 1
               /\ \A i \in 1..Len(log[c]) : log'[c][i] = log[c][i]
               /\ ret'[t] = (IF log'[c][Len(log'[c])].res THEN "True" ELSE "False")]_vars

\* C23 happens: two calls for one customer overlap under rate 1; the one
\* that got the lock second has been rejected while a third call for the
\* same customer waits for the lock.
C23_Witness ==
    \E t, u \in Threads :
        /\ rate = 1
        /\ pc[t] = "exit" /\ ret[t] = "False" /\ pc[u] = "l56"
        /\ customer_id[t] = PyStr("a") /\ customer_id[u] = PyStr("a")
        /\ log["a"] = <<[at |-> 0, res |-> TRUE], [at |-> 1, res |-> FALSE]>>

\* the window starts of the decided calls of customer c
WindowStartsSeen(c) == {AlignedStart(log[c][i].at) : i \in 1..Len(log[c])}

\* C24: the stored window_start of a customer is the largest window start
\* computed by the calls completed for that customer; it is a multiple of
\* time_window, not negative, and it never decreases.
C24_WindowStartIsMaximum ==
    /\ [](instance = "ok" =>
            \A c \in CustomerKeys \cap DOMAIN customers :
                /\ customers[c][1] \in WindowStartsSeen(c)
                /\ \A ws \in WindowStartsSeen(c) : ws <= customers[c][1]
                /\ customers[c][1] >= 0
                /\ customers[c][1] % time_window = 0)
    /\ [][\A c \in DOMAIN customers : customers'[c][1] >= customers[c][1]]_vars

\* C24 happens: after calls at seconds 2, 4 and 1 the stored window start
\* is 4, the largest seen, although the last call belongs to window 0.
C24_Witness ==
    /\ instance = "ok" /\ time_window = 2
    /\ Len(log["a"]) = 3
    /\ log["a"][1].at = 2 /\ log["a"][2].at = 4 /\ log["a"][3].at = 1
    /\ customers["a"][1] = 4
    /\ pc[1] = "idle"

\* the calls of customer c were made at timestamps that never go back
NonDecreasing(c) == \A i \in 1..(Len(log[c]) - 1) : log[c][i].at <= log[c][i + 1].at
\* the calls before call i of customer c that the reference limiter, with
\* one admitted-count per (customer, window), has counted in the window of call i
CountedBefore(c, i) ==
    {j \in 1..(i - 1) :
        log[c][j].res /\ AlignedStart(log[c][j].at) = AlignedStart(log[c][i].at)}

\* C25: when the timestamps of a customer's calls never go back, every call
\* returns True exactly when fewer than rate earlier calls of the same
\* window returned True, as the reference fixed-window limiter decides.
C25_AgreesWithReferenceWhenMonotone ==
    instance = "ok" =>
        \A c \in CustomerKeys :
            NonDecreasing(c) =>
                \A i \in 1..Len(log[c]) :
                    log[c][i].res <=> (Cardinality(CountedBefore(c, i)) < rate)

\* C25 happens: five calls at seconds 0, 1, 1, 2, 3 under rate 2: the third
\* is rejected in window 0 and the two of window 2 are admitted.
C25_Witness ==
    /\ instance = "ok" /\ rate = 2 /\ time_window = 2
    /\ [i \in 1..Len(log["a"]) |-> log["a"][i].at] = <<0, 1, 1, 2, 3>>
    /\ [i \in 1..Len(log["a"]) |-> log["a"][i].res] = <<TRUE, TRUE, FALSE, TRUE, TRUE>>
=============================================================================
